---- MODULE Spec2Model ----
(***************************************************************************)
(* Model of the cattocol crate (src/src/lib.rs): the CatToCol builder,     *)
(* the combine operations and the lazy fragment iterators they return.     *)
(*                                                                         *)
(* A text is a sequence of characters, a character is a one-character      *)
(* string.  A fragment (one &str yielded by an iterator) is a sequence of  *)
(* characters too, and the output of an iterator is the sequence of the    *)
(* fragments it has yielded so far.                                        *)
(*                                                                         *)
(* usize values that can wrap are kept as integers modulo 2^64 in their    *)
(* balanced representation: a negative n stands for 2^64 + n.  Sums and    *)
(* differences of such values are exact as long as the magnitudes stay far *)
(* below 2^63, which the bounds guarantee.                                 *)
(***************************************************************************)
EXTENDS Integers, Sequences, FiniteSets, TLC

(***************************************************************************)
(* Bounds of the model.                                                    *)
(***************************************************************************)
\* the lengths of the input texts of one call add up to at most MaxTotal
MaxTotal == 5
\* CatToCol::repeat is called with 0..MaxRepeat
MaxRepeat == 1
\* an iterator is advanced while it has yielded fewer than MaxOut fragments
MaxOut == 24
\* the lengths of the input texts of two iterators alive at the same time
\* add up to at most MaxPair
MaxPair == 3

(***************************************************************************)
(* Characters.                                                             *)
(***************************************************************************)
LF == "\n"
CR == "\r"
\* the escape character U+001B
ESC == "ESC"
\* the character the separator of the line joins is made of
SPACE == " "
\* characters of the input texts
PlainChars == {"a", CR, LF}
\* characters of the first text of combine_col_esc
EscChars == PlainChars \cup {ESC}
\* arguments of CatToCol::fill
FillChars == {SPACE, "*"}

TextsUpTo(chars, n) == UNION {[1..k -> chars] : k \in 0..n}

Max(a, b) == IF a >= b THEN a ELSE b

RECURSIVE Concat(_)
\* Iterator::collect::<String>(): the fragments joined in order
Concat(frags) ==
  IF frags = <<>> THEN <<>> ELSE Head(frags) \o Concat(Tail(frags))

RECURSIVE Repeated(_, _)
\* n copies of the character c
Repeated(c, n) == IF n <= 0 THEN <<>> ELSE <<c>> \o Repeated(c, n - 1)

(***************************************************************************)
(* str::lines(): the text is cut after every line feed                     *)
(* (split_inclusive), then each piece loses its final "\n" and, only if it *)
(* had one, a "\r" right before it.  The empty text has no line.           *)
(***************************************************************************)
RECURSIVE SplitTerminated(_, _)
\* mutant of SplitInclusive: the text is cut as by split('\n'), which has a
\* last piece behind the final line feed and one piece for the empty text
SplitTerminated(s, cur) ==
  IF s = <<>> THEN <<cur>>
  ELSE IF Head(s) = LF THEN <<cur \o <<LF>> >> \o SplitTerminated(Tail(s), <<>>)
  ELSE SplitTerminated(Tail(s), cur \o <<Head(s)>>)

RECURSIVE SplitInclusive(_, _)
\* pieces of s, each ending with LF except possibly the last; cur is the
\* piece being assembled
SplitInclusive(s, cur) ==
  IF s = <<>> THEN (IF cur = <<>> THEN <<>> ELSE <<cur>>)
  ELSE IF Head(s) = LF THEN <<cur \o <<LF>> >> \o SplitInclusive(Tail(s), <<>>)
  ELSE SplitInclusive(Tail(s), cur \o <<Head(s)>>)

StripSuffix(s, c) ==
  IF s # <<>> /\ s[Len(s)] = c THEN SubSeq(s, 1, Len(s) - 1) ELSE s

HasSuffix(s, c) == s # <<>> /\ s[Len(s)] = c

LinesMap(piece) ==
  IF ~HasSuffix(piece, LF) THEN piece
  ELSE StripSuffix(StripSuffix(piece, LF), CR)

Lines(text) ==
  LET pieces == SplitInclusive(text, <<>>)
  IN  [i \in 1..Len(pieces) |-> LinesMap(pieces[i])]

\* line.chars().count(): every character of the model is one code point
CharsCount(line) == Len(line)

RECURSIVE MaxOf(_)
MaxOf(ns) == IF ns = <<>> THEN 0 ELSE Max(Head(ns), MaxOf(Tail(ns)))

max_line_len(text) ==
  LET ls == Lines(text)
  IN  MaxOf([i \in 1..Len(ls) |-> CharsCount(ls[i])])

(***************************************************************************)
(* strip_ansi_escapes::strip: every byte goes through the vte parser; the  *)
(* performer writes the printed characters and, of the executed control    *)
(* characters, the line feed only.  Escape and control sequences, and      *)
(* carriage returns, are dropped.  A control character inside a sequence   *)
(* is executed at once and leaves the parser inside the sequence.          *)
(***************************************************************************)
RECURSIVE VteAdvance(_, _)
\* what the performer writes for `bytes` when the parser is in `state`
VteAdvance(bytes, state) ==
  IF bytes = <<>> THEN <<>>
  ELSE LET b == Head(bytes)
           rest == Tail(bytes)
       IN  IF b = ESC THEN VteAdvance(rest, "Escape")
           ELSE IF b = LF THEN <<LF>> \o VteAdvance(rest, state)
           ELSE IF b = CR THEN VteAdvance(rest, state)
           ELSE IF state = "Ground" THEN <<b>> \o VteAdvance(rest, "Ground")
           ELSE IF state = "Escape" /\ b = "[" THEN VteAdvance(rest, "CsiEntry")
           ELSE VteAdvance(rest, "Ground")

strip(text) == VteAdvance(text, "Ground")

max_line_len_no_esc(text) == max_line_len(strip(text))

(***************************************************************************)
(* State.                                                                  *)
(***************************************************************************)
VARIABLES
  cfg,      \* the CatToCol value: [fill, repeat]
  status,   \* "idle" | "iterating" | "exhausted" | "panicked"
  it,       \* the iterator returned by the last combine call
  out,      \* the fragments the iterator has yielded, in order
  profile,  \* integer overflow of the build: "unknown" until an overflow
            \* happens, then "checked" (it panics) or "wrapping"
  other     \* a second iterator alive at the same time: [status, it, out]

vars == <<cfg, status, it, out, profile, other>>

\* usize::MAX in the balanced representation
USIZE_MAX == -1

\* CatToCol::new
new == [fill |-> SPACE, repeat |-> 0]

\* <CatToCol as Default>::default
default == new

\* the inner iterator of a flat_map: the fragments of `pre`, then `take`
\* copies of the fill character, then the fragments of `post`
Front(pre, take, post) == [pre |-> pre, take |-> take, post |-> post]

NoFront == Front(<<>>, 0, <<>>)

FrontEmpty(f) == f.pre = <<>> /\ f.take = 0 /\ f.post = <<>>

\* a wrapped (negative) take count never reaches 0 within MaxOut steps
FrontHead(f, fill) ==
  IF f.pre # <<>> THEN Head(f.pre)
  ELSE IF f.take # 0 THEN <<fill>>
  ELSE Head(f.post)

FrontTail(f) ==
  IF f.pre # <<>> THEN [f EXCEPT !.pre = Tail(f.pre)]
  ELSE IF f.take # 0 THEN [f EXCEPT !.take = f.take - 1]
  ELSE [f EXCEPT !.post = Tail(f.post)]

\* Iterator::take(n) of a finite iterator
TakeSeq(frags, n) ==
  IF n < 0 \/ n >= Len(frags) THEN frags ELSE SubSeq(frags, 1, n)

Min(a, b) == IF a <= b THEN a ELSE b

NoText == <<>>

\* the iterator before any call
NoIter ==
  [op |-> "none", str |-> <<NoText, NoText, NoText, NoText>>,
   max_line_one |-> 0, len_min |-> 0, part |-> 1, zip |-> 0,
   pos |-> <<0, 0, 0, 0>>, skip |-> <<0, 0>>, front |-> NoFront]

\* the iterator a combine call returns: `zip` pairs have been taken from
\* txt_iter, `pos[k]` lines have been taken from the lines iterator of text
\* k, `skip[k]` lines are still to be skipped by iter.skip(len_min), `part`
\* is the member of the chain that is being drained, `front` is the inner
\* iterator of the flat_map that is being drained
NewIter(op, str, max, lmin) ==
  [op |-> op, str |-> str, max_line_one |-> max, len_min |-> lmin,
   part |-> 1, zip |-> 0, pos |-> <<0, 0, 0, 0>>, skip |-> <<lmin, lmin>>,
   front |-> NoFront]

\* no second iterator
NoOther == [status |-> "idle", it |-> NoIter, out |-> <<>>]

Init ==
  /\ cfg = new
  /\ status = "idle"
  /\ it = NoIter
  /\ out = <<>>
  /\ profile = "unknown"
  /\ other = NoOther

(***************************************************************************)
(* The closures of the flat_maps: the inner iterator made for one item.    *)
(* An Option<&str> is a sequence of no or one line.                        *)
(***************************************************************************)
Some(line) == <<line>>

None == <<>>

\* mutant of combine_col_item: the operands of the subtraction are swapped
combine_col_item_swapped(self, max_line_one, item0, item1) ==
  LET just_len == max_line_len(item0) - max_line_one
  IN  [front |-> Front(<<item0>>, just_len + self.repeat, <<item1, <<LF>> >>),
       overflow |-> just_len < 0]

\* combine_col, the paired lines; the second field tells whether the
\* subtraction overflowed
combine_col_item(self, max_line_one, item0, item1) ==
  LET just_len == max_line_one - max_line_len(item0)
  IN  [front |-> Front(<<item0>>, just_len + self.repeat, <<item1, <<LF>> >>),
       overflow |-> just_len < 0]

\* combine_col_esc, the paired lines
combine_col_esc_item(self, max_line_one, item0, item1) ==
  LET just_len == max_line_one - max_line_len_no_esc(item0)
  IN  [front |-> Front(<<item0>>, just_len + self.repeat, <<item1, <<LF>> >>),
       overflow |-> just_len < 0]

\* mutant of combine_col_rest_one: a separator behind the line
combine_col_rest_one_spaced(line) ==
  Front(<<line, <<SPACE>>, <<LF>> >>, 0, <<>>)

\* combine_col and combine_col_esc, a line left in the first text
combine_col_rest_one(line) == Front(<<line, <<LF>> >>, 0, <<>>)

\* mutant of combine_col_rest_two: the width of the first text is left out
combine_col_rest_two_unpadded(self, max_line_one, line) ==
  Front(<<>>, self.repeat, <<line, <<LF>> >>)

\* combine_col and combine_col_esc, a line left in the second text
combine_col_rest_two(self, max_line_one, line) ==
  Front(<<>>, max_line_one + self.repeat, <<line, <<LF>> >>)

\* mutant of cat_to_col_item: the separator only between non-empty lines
cat_to_col_item_nonempty(item0, item1) ==
  Front(<<item0>>
          \o (IF item0 = <<>> \/ item1 = <<>> THEN <<>> ELSE << <<SPACE>> >>)
          \o <<item1, <<LF>> >>, 0, <<>>)

\* cat_to_col, the paired lines
cat_to_col_item(item0, item1) ==
  Front(<<item0, <<SPACE>>, item1, <<LF>> >>, 0, <<>>)

\* mutant of cat_to_col_rest: the separator of the paired lines behind a
\* line that has no partner
cat_to_col_rest_spaced(line) == Front(<<line, <<SPACE>>, <<LF>> >>, 0, <<>>)

\* cat_to_col, a line left in either text
cat_to_col_rest(line) == Front(<<line, <<LF>> >>, 0, <<>>)

\* mutant of by_lines_item: the line is cut as by_pairs cuts it
by_lines_item_taken(first_line, second) ==
  LET second_line == IF second # None THEN second[1] ELSE <<>>
      takes == IF first_line = <<>> \/ second_line = <<>> THEN 0
               ELSE USIZE_MAX
  IN  Front(TakeSeq(<<first_line, <<SPACE>> >> \o Lines(second_line)
                      \o << <<LF>> >>, takes), 0, <<>>)

\* mutant of by_lines_item: the separator before every line of the second text
by_lines_item_spaced(first_line, second) ==
  LET space_take == IF second # None THEN 1 ELSE 0
      second_line == Lines(IF second # None THEN second[1] ELSE <<>>)
  IN  Front(<<first_line>> \o TakeSeq(<< <<SPACE>> >>, space_take)
              \o second_line \o << <<LF>> >>, 0, <<>>)

by_lines_item(first_line, second) ==
  LET space_take ==
        IF second # None
        THEN (IF first_line = <<>> \/ second[1] = <<>> THEN 0 ELSE 1)
        ELSE 0
      second_line == Lines(IF second # None THEN second[1] ELSE <<>>)
  IN  Front(<<first_line>> \o TakeSeq(<< <<SPACE>> >>, space_take)
              \o second_line \o << <<LF>> >>, 0, <<>>)

\* mutant of by_pairs_item: an empty first line does not clear takes
by_pairs_item_first_unchecked(first_line, second) ==
  LET second_line == IF second # None THEN second[1] ELSE <<>>
      takes == IF second_line = <<>> THEN 0
               ELSE IF second # None THEN USIZE_MAX ELSE 0
  IN  Front(TakeSeq(<<first_line, <<SPACE>> >> \o Lines(second_line)
                      \o << <<LF>> >>, takes), 0, <<>>)

by_pairs_item(first_line, second) ==
  LET second_line == IF second # None THEN second[1] ELSE <<>>
      takes == IF first_line = <<>> \/ second_line = <<>> THEN 0
               ELSE IF second # None THEN USIZE_MAX ELSE 0
  IN  Front(TakeSeq(<<first_line, <<SPACE>> >> \o Lines(second_line)
                      \o << <<LF>> >>, takes), 0, <<>>)

\* mutant of by_three_lines_item: the second separator looks at the third
\* line only
by_three_lines_item_eager(first_line, second, third) ==
  LET first_line_notempty == first_line # <<>>
      second_line_notempty == second # None /\ second[1] # <<>>
      first_space_take ==
        IF second # None /\ first_line_notempty /\ second_line_notempty
        THEN 1 ELSE 0
      second_space_take == IF third # None /\ third[1] # <<>> THEN 1 ELSE 0
      second_line == IF second # None THEN second[1] ELSE <<>>
      third_line == IF third # None THEN third[1] ELSE <<>>
  IN  Front(<<first_line>>
              \o TakeSeq(<< <<SPACE>> >>, first_space_take) \o Lines(second_line)
              \o TakeSeq(<< <<SPACE>> >>, second_space_take) \o Lines(third_line)
              \o << <<LF>> >>, 0, <<>>)

by_three_lines_item(first_line, second, third) ==
  LET first_line_notempty == first_line # <<>>
      second_line_notempty == second # None /\ second[1] # <<>>
      first_space_take ==
        IF second # None /\ first_line_notempty /\ second_line_notempty
        THEN 1 ELSE 0
      second_space_take ==
        IF third # None /\ (first_line_notempty \/ second_line_notempty)
             /\ third[1] # <<>>
        THEN 1 ELSE 0
      second_line == IF second # None THEN second[1] ELSE <<>>
      third_line == IF third # None THEN third[1] ELSE <<>>
  IN  Front(<<first_line>>
              \o TakeSeq(<< <<SPACE>> >>, first_space_take) \o Lines(second_line)
              \o TakeSeq(<< <<SPACE>> >>, second_space_take) \o Lines(third_line)
              \o << <<LF>> >>, 0, <<>>)

\* mutant of by_four_lines_item: the third separator forgets the third line
by_four_lines_item_forgetful(first_line, second, third, fourth) ==
  LET first_line_notempty == first_line # <<>>
      second_line_notempty == second # None /\ second[1] # <<>>
      first_space_take ==
        IF second # None /\ first_line_notempty /\ second_line_notempty
        THEN 1 ELSE 0
      second_space_take ==
        IF third # None /\ (first_line_notempty \/ second_line_notempty)
             /\ third[1] # <<>>
        THEN 1 ELSE 0
      third_space_take ==
        IF fourth # None /\ (first_line_notempty \/ second_line_notempty)
             /\ fourth[1] # <<>>
        THEN 1 ELSE 0
      second_line == IF second # None THEN second[1] ELSE <<>>
      third_line == IF third # None THEN third[1] ELSE <<>>
      fourth_line == IF fourth # None THEN fourth[1] ELSE <<>>
  IN  Front(<<first_line>>
              \o TakeSeq(<< <<SPACE>> >>, first_space_take) \o Lines(second_line)
              \o TakeSeq(<< <<SPACE>> >>, second_space_take) \o Lines(third_line)
              \o TakeSeq(<< <<SPACE>> >>, third_space_take) \o Lines(fourth_line)
              \o << <<LF>> >>, 0, <<>>)

\* mutant of by_four_lines_item: the third separator does not look at the
\* second line
by_four_lines_item_shortsighted(first_line, second, third, fourth) ==
  LET first_line_notempty == first_line # <<>>
      second_line_notempty == second # None /\ second[1] # <<>>
      third_line_notempty == third # None /\ third[1] # <<>>
      first_space_take ==
        IF second # None /\ first_line_notempty /\ second_line_notempty
        THEN 1 ELSE 0
      second_space_take ==
        IF third # None /\ (first_line_notempty \/ second_line_notempty)
             /\ third[1] # <<>>
        THEN 1 ELSE 0
      third_space_take ==
        IF fourth # None /\ (first_line_notempty \/ third_line_notempty)
             /\ fourth[1] # <<>>
        THEN 1 ELSE 0
      second_line == IF second # None THEN second[1] ELSE <<>>
      third_line == IF third # None THEN third[1] ELSE <<>>
      fourth_line == IF fourth # None THEN fourth[1] ELSE <<>>
  IN  Front(<<first_line>>
              \o TakeSeq(<< <<SPACE>> >>, first_space_take) \o Lines(second_line)
              \o TakeSeq(<< <<SPACE>> >>, second_space_take) \o Lines(third_line)
              \o TakeSeq(<< <<SPACE>> >>, third_space_take) \o Lines(fourth_line)
              \o << <<LF>> >>, 0, <<>>)

by_four_lines_item(first_line, second, third, fourth) ==
  LET first_line_notempty == first_line # <<>>
      second_line_notempty == second # None /\ second[1] # <<>>
      third_line_notempty == third # None /\ third[1] # <<>>
      first_space_take ==
        IF second # None /\ first_line_notempty /\ second_line_notempty
        THEN 1 ELSE 0
      second_space_take ==
        IF third # None /\ (first_line_notempty \/ second_line_notempty)
             /\ third[1] # <<>>
        THEN 1 ELSE 0
      third_space_take ==
        IF fourth # None
             /\ (first_line_notempty \/ second_line_notempty
                   \/ third_line_notempty)
             /\ fourth[1] # <<>>
        THEN 1 ELSE 0
      second_line == IF second # None THEN second[1] ELSE <<>>
      third_line == IF third # None THEN third[1] ELSE <<>>
      fourth_line == IF fourth # None THEN fourth[1] ELSE <<>>
  IN  Front(<<first_line>>
              \o TakeSeq(<< <<SPACE>> >>, first_space_take) \o Lines(second_line)
              \o TakeSeq(<< <<SPACE>> >>, second_space_take) \o Lines(third_line)
              \o TakeSeq(<< <<SPACE>> >>, third_space_take) \o Lines(fourth_line)
              \o << <<LF>> >>, 0, <<>>)

(***************************************************************************)
(* The outer iterators of the flat_maps.                                   *)
(***************************************************************************)
\* Lines::next on the lines iterator of text k: the line, if one is left
LinesNext(i, k) ==
  LET ls == Lines(i.str[k])
  IN  IF i.pos[k] < Len(ls) THEN Some(ls[i.pos[k] + 1]) ELSE None

\* the iterator after Lines::next on the lines iterator of text k
LinesAdvance(i, k) ==
  IF i.pos[k] < Len(Lines(i.str[k]))
  THEN [i EXCEPT !.pos[k] = i.pos[k] + 1]
  ELSE i

\* Zip::next on txt_iter: the pair of lines, if both texts have one left
ZipNext(i) ==
  LET l1 == Lines(i.str[1])
      l2 == Lines(i.str[2])
  IN  IF i.zip < Len(l1) /\ i.zip < Len(l2)
      THEN Some(<<l1[i.zip + 1], l2[i.zip + 1]>>)
      ELSE None

\* the iterator with the lines that iter.skip(len_min) still has to skip
\* taken from the lines iterator of text k
Skipped(i, k) ==
  [i EXCEPT !.pos[k] = Min(i.pos[k] + i.skip[k], Len(Lines(i.str[k]))),
            !.skip[k] = 0]

\* the result of drawing the next item of the outer iterator and applying
\* the closure to it
Drawn(i, front, overflow) ==
  [done |-> FALSE, it |-> [i EXCEPT !.front = front], overflow |-> overflow]

Ended(i) == [done |-> TRUE, it |-> i, overflow |-> FALSE]

\* the chain of combine_col, combine_col_esc and cat_to_col: the paired
\* lines, then the lines left in the first text, then those left in the
\* second
ChainOuter(self, i) ==
  LET pair == ZipNext(i)
      s1 == Skipped([i EXCEPT !.part = 2], 1)
      one == LinesNext(s1, 1)
      s2 == Skipped([s1 EXCEPT !.part = 3], 2)
      two == LinesNext(s2, 2)
  IN  IF i.part = 1 /\ pair # None
      THEN LET item == pair[1]
               made == IF i.op = "combine_col"
                       THEN combine_col_item(self, i.max_line_one,
                                             item[1], item[2])
                       ELSE IF i.op = "combine_col_esc"
                       THEN combine_col_esc_item(self, i.max_line_one,
                                                 item[1], item[2])
                       ELSE [front |-> cat_to_col_item(item[1], item[2]),
                             overflow |-> FALSE]
           IN  Drawn([i EXCEPT !.zip = i.zip + 1], made.front, made.overflow)
      ELSE IF i.part <= 2 /\ one # None
      THEN Drawn(LinesAdvance(s1, 1),
                 IF i.op = "cat_to_col" THEN cat_to_col_rest(one[1])
                 ELSE combine_col_rest_one(one[1]), FALSE)
      ELSE IF two # None
      THEN Drawn(LinesAdvance(s2, 2),
                 IF i.op = "cat_to_col" THEN cat_to_col_rest(two[1])
                 ELSE combine_col_rest_two(self, i.max_line_one, two[1]),
                 FALSE)
      ELSE Ended(s2)

\* mutant of FirstOuter: the closure of by_pairs takes a line of the second
\* text only when the line of the first text is not empty
FirstOuterSkipping(i) ==
  LET first == LinesNext(i, 1)
      second == LinesNext(i, 2)
      third == LinesNext(i, 3)
      fourth == LinesNext(i, 4)
      i1 == LinesAdvance(i, 1)
      i2 == LinesAdvance(i1, 2)
      i3 == LinesAdvance(i2, 3)
      i4 == LinesAdvance(i3, 4)
  IN  IF first = None THEN Ended(i)
      ELSE IF i.op = "by_lines"
      THEN Drawn(i2, by_lines_item(first[1], second), FALSE)
      ELSE IF i.op = "by_pairs"
      THEN (IF first[1] = <<>>
            THEN Drawn(i1, by_pairs_item(first[1], None), FALSE)
            ELSE Drawn(i2, by_pairs_item(first[1], second), FALSE))
      ELSE IF i.op = "by_three_lines"
      THEN Drawn(i3, by_three_lines_item(first[1], second, third), FALSE)
      ELSE Drawn(i4, by_four_lines_item(first[1], second, third, fourth),
                 FALSE)

\* by_lines, by_pairs, by_three_lines, by_four_lines: the lines of the first
\* text; the closure takes one line of each other text, if it has one left
FirstOuter(i) ==
  LET first == LinesNext(i, 1)
      second == LinesNext(i, 2)
      third == LinesNext(i, 3)
      fourth == LinesNext(i, 4)
      i1 == LinesAdvance(i, 1)
      i2 == LinesAdvance(i1, 2)
      i3 == LinesAdvance(i2, 3)
      i4 == LinesAdvance(i3, 4)
  IN  IF first = None THEN Ended(i)
      ELSE IF i.op = "by_lines"
      THEN Drawn(i2, by_lines_item(first[1], second), FALSE)
      ELSE IF i.op = "by_pairs"
      THEN Drawn(i2, by_pairs_item(first[1], second), FALSE)
      ELSE IF i.op = "by_three_lines"
      THEN Drawn(i3, by_three_lines_item(first[1], second, third), FALSE)
      ELSE Drawn(i4, by_four_lines_item(first[1], second, third, fourth),
                 FALSE)

ChainOps == {"combine_col", "combine_col_esc", "cat_to_col"}

FirstOps == {"by_lines", "by_pairs", "by_three_lines", "by_four_lines"}

RECURSIVE Pull(_, _, _)
\* Iterator::next: the next fragment of the inner iterator; when that is
\* empty, the outer iterator is advanced until an inner iterator yields.
\* `checked` tells whether the build panics on integer overflow.
Pull(self, i, checked) ==
  IF ~FrontEmpty(i.front)
  THEN [kind |-> "some", item |-> FrontHead(i.front, self.fill),
        it |-> [i EXCEPT !.front = FrontTail(i.front)], overflow |-> FALSE]
  ELSE LET o == IF i.op \in ChainOps THEN ChainOuter(self, i)
                ELSE FirstOuter(i)
       IN  IF o.done
           THEN [kind |-> "none", item |-> <<>>, it |-> o.it,
                 overflow |-> FALSE]
           ELSE IF o.overflow /\ checked
           THEN [kind |-> "panic", item |-> <<>>, it |-> i,
                 overflow |-> TRUE]
           ELSE LET r == Pull(self, o.it, checked)
                IN  [r EXCEPT !.overflow = r.overflow \/ o.overflow]

(***************************************************************************)
(* The iterators the combine calls return.  The width of the first text    *)
(* and the number of paired lines are computed by the call, before the     *)
(* first Iterator::next.                                                   *)
(***************************************************************************)
LenMin(str_one, str_two) == Min(Len(Lines(str_one)), Len(Lines(str_two)))

CombineColIter(str_one, str_two) ==
  NewIter("combine_col", <<str_one, str_two, NoText, NoText>>,
          max_line_len(str_one), LenMin(str_one, str_two))

CombineColEscIter(str_one, str_two) ==
  NewIter("combine_col_esc", <<str_one, str_two, NoText, NoText>>,
          max_line_len_no_esc(str_one), LenMin(str_one, str_two))

CatToColIter(str_one, str_two) ==
  NewIter("cat_to_col", <<str_one, str_two, NoText, NoText>>,
          0, LenMin(str_one, str_two))

\* by_lines, by_pairs, by_three_lines, by_four_lines; a text the operation
\* does not take is NoText and is never read
FirstIter(op, first_str, second_str, third_str, fourth_str) ==
  NewIter(op, <<first_str, second_str, third_str, fourth_str>>, 0, 0)

\* the iterator of the call of op on the texts str
CallIter(op, str) ==
  IF op = "combine_col" THEN CombineColIter(str[1], str[2])
  ELSE IF op = "combine_col_esc" THEN CombineColEscIter(str[1], str[2])
  ELSE IF op = "cat_to_col" THEN CatToColIter(str[1], str[2])
  ELSE FirstIter(op, str[1], str[2], str[3], str[4])

RECURSIVE Run(_, _, _, _)
\* the first n fragments of the iterator i, and how Iterator::next ends
\* within them: "none" at the end of the iterator, "panic" at an overflow
\* of a build that checks for it, "more" when n fragments have come
Run(self, i, checked, n) ==
  IF n = 0 THEN [frags |-> <<>>, end |-> "more"]
  ELSE LET r == Pull(self, i, checked)
       IN  IF r.kind = "some"
           THEN LET t == Run(self, r.it, checked, n - 1)
                IN  [frags |-> <<r.item>> \o t.frags, end |-> t.end]
           ELSE [frags |-> <<>>, end |-> r.kind]

RECURSIVE Fragments(_, _)
\* the fragments the iterator i yields from here to its end when it is
\* drained alone, as by collect(); an iterator whose subtraction overflows
\* yields none from there on
Fragments(self, i) ==
  LET r == Pull(self, i, TRUE)
  IN  IF r.kind = "some" THEN <<r.item>> \o Fragments(self, r.it) ELSE <<>>

(***************************************************************************)
(* Operations.  The builder methods take the CatToCol by value, and an     *)
(* iterator of combine_col or combine_col_esc borrows it, so the value     *)
(* changes only while no iterator is alive.                                *)
(***************************************************************************)
\* CatToCol::fill
fill(c) ==
  /\ status = "idle"
  /\ other.status = "idle"
  /\ cfg' = [cfg EXCEPT !.fill = c]
  /\ UNCHANGED <<status, it, out, profile, other>>

\* mutant of repeat: the count is set in a value made by CatToCol::new
repeat_from_new(n) ==
  /\ status = "idle"
  /\ other.status = "idle"
  /\ cfg' = [new EXCEPT !.repeat = n]
  /\ UNCHANGED <<status, it, out, profile, other>>

\* CatToCol::repeat
repeat(n) ==
  /\ status = "idle"
  /\ other.status = "idle"
  /\ cfg' = [cfg EXCEPT !.repeat = n]
  /\ UNCHANGED <<status, it, out, profile, other>>

\* a combine call returns the iterator i; nothing is yielded before the
\* first Iterator::next
Returned(i) ==
  /\ status = "idle"
  /\ it' = i
  /\ out' = <<>>
  /\ status' = "iterating"
  /\ UNCHANGED <<cfg, profile, other>>

\* mutant of combine_col: the width is measured over the paired lines only
combine_col_paired_max(str_one, str_two) ==
  LET ls == Lines(str_one)
      n == LenMin(str_one, str_two)
  IN  Returned(NewIter("combine_col", <<str_one, str_two, NoText, NoText>>,
                       MaxOf([i \in 1..n |-> CharsCount(ls[i])]), n))

combine_col(str_one, str_two) == Returned(CombineColIter(str_one, str_two))

combine_col_esc(str_one, str_two) ==
  Returned(CombineColEscIter(str_one, str_two))

cat_to_col(str_one, str_two) == Returned(CatToColIter(str_one, str_two))

by_lines(first_str, second_str) ==
  Returned(FirstIter("by_lines", first_str, second_str, NoText, NoText))

by_pairs(first_str, second_str) ==
  Returned(FirstIter("by_pairs", first_str, second_str, NoText, NoText))

by_three_lines(first_str, second_str, third_str) ==
  Returned(FirstIter("by_three_lines", first_str, second_str, third_str,
                     NoText))

by_four_lines(first_str, second_str, third_str, fourth_str) ==
  Returned(FirstIter("by_four_lines", first_str, second_str, third_str,
                     fourth_str))

\* mutant of Advance: the iterators of one CatToCol take the lines of their
\* second texts from one lines iterator
AdvanceSharing(op) ==
  /\ status \in {"iterating", "exhausted"}
  /\ it.op = op
  /\ Len(out) < MaxOut
  /\ \E checked \in (IF profile = "unknown" THEN BOOLEAN
                     ELSE {profile = "checked"}) :
       LET r == Pull(cfg, it, checked)
       IN  /\ it' = r.it
           /\ out' = IF r.kind = "some" THEN Append(out, r.item) ELSE out
           /\ status' = CASE r.kind = "some" -> "iterating"
                          [] r.kind = "none" -> "exhausted"
                          [] r.kind = "panic" -> "panicked"
           /\ other' = IF r.it.pos[2] # it.pos[2] /\ other.status # "idle"
                       THEN [other EXCEPT !.it = LinesAdvance(other.it, 2)]
                       ELSE other
           /\ profile' = IF r.overflow /\ profile = "unknown"
                         THEN (IF checked THEN "checked" ELSE "wrapping")
                         ELSE profile
  /\ UNCHANGED cfg

\* Iterator::next on the iterator of the operation op; an iterator that has
\* returned None can be asked again
Advance(op) ==
  /\ status \in {"iterating", "exhausted"}
  /\ it.op = op
  /\ Len(out) < MaxOut
  /\ \E checked \in (IF profile = "unknown" THEN BOOLEAN
                     ELSE {profile = "checked"}) :
       LET r == Pull(cfg, it, checked)
       IN  /\ it' = r.it
           /\ out' = IF r.kind = "some" THEN Append(out, r.item) ELSE out
           /\ status' = CASE r.kind = "some" -> "iterating"
                          [] r.kind = "none" -> "exhausted"
                          [] r.kind = "panic" -> "panicked"
           /\ profile' = IF r.overflow /\ profile = "unknown"
                         THEN (IF checked THEN "checked" ELSE "wrapping")
                         ELSE profile
  /\ UNCHANGED <<cfg, other>>

NextCombineCol == Advance("combine_col")

NextCombineColEsc == Advance("combine_col_esc")

NextCatToCol == Advance("cat_to_col")

NextByLines == Advance("by_lines")

NextByPairs == Advance("by_pairs")

NextByThreeLines == Advance("by_three_lines")

NextByFourLines == Advance("by_four_lines")

\* the iterator is dropped, consumed or not
Drop ==
  /\ status \in {"iterating", "exhausted"}
  /\ status' = "idle"
  /\ it' = NoIter
  /\ out' = <<>>
  /\ UNCHANGED <<cfg, profile, other>>

(***************************************************************************)
(* A second iterator, returned by a combine call while the first is alive. *)
(* Each call makes its own lines iterators and each closure owns the ones  *)
(* it takes lines from, so an iterator has its state to itself; the        *)
(* CatToCol is borrowed shared.  The caller holds the two iterators in two *)
(* bindings and turns from one to the other between any two steps: status, *)
(* it and out are the iterator the next step is on, other is the one set   *)
(* aside.                                                                  *)
(***************************************************************************)
\* the caller turns to the other iterator, or to making one
TurnToOther ==
  /\ status # "panicked"
  /\ other.status # "idle" \/ status # "idle"
  /\ status' = other.status
  /\ it' = other.it
  /\ out' = other.out
  /\ other' = [status |-> status, it |-> it, out |-> out]
  /\ UNCHANGED <<cfg, profile>>

(***************************************************************************)
(* The calls, with their arguments drawn from the bounded sets.            *)
(***************************************************************************)
Configure ==
  \/ \E c \in FillChars : fill(c)
  \/ \E n \in 0..MaxRepeat : repeat(n)

CallCombineCol ==
  /\ status = "idle"
  /\ \E str_one \in TextsUpTo(PlainChars, MaxTotal) :
       \E str_two \in TextsUpTo(PlainChars, MaxTotal - Len(str_one)) :
         combine_col(str_one, str_two)

CallCombineColEsc ==
  /\ status = "idle"
  /\ \E str_one \in TextsUpTo(EscChars, MaxTotal) :
       \E str_two \in TextsUpTo(PlainChars, MaxTotal - Len(str_one)) :
         combine_col_esc(str_one, str_two)

CallCatToCol ==
  /\ status = "idle"
  /\ \E str_one \in TextsUpTo(PlainChars, MaxTotal) :
       \E str_two \in TextsUpTo(PlainChars, MaxTotal - Len(str_one)) :
         cat_to_col(str_one, str_two)

CallByLines ==
  /\ status = "idle"
  /\ \E first_str \in TextsUpTo(PlainChars, MaxTotal) :
       \E second_str \in TextsUpTo(PlainChars, MaxTotal - Len(first_str)) :
         by_lines(first_str, second_str)

CallByPairs ==
  /\ status = "idle"
  /\ \E first_str \in TextsUpTo(PlainChars, MaxTotal) :
       \E second_str \in TextsUpTo(PlainChars, MaxTotal - Len(first_str)) :
         by_pairs(first_str, second_str)

CallByThreeLines ==
  /\ status = "idle"
  /\ \E first_str \in TextsUpTo(PlainChars, MaxTotal) :
       \E second_str \in TextsUpTo(PlainChars, MaxTotal - Len(first_str)) :
         \E third_str \in TextsUpTo(PlainChars,
                                    MaxTotal - Len(first_str) - Len(second_str)) :
           by_three_lines(first_str, second_str, third_str)

CallByFourLines ==
  /\ status = "idle"
  /\ \E first_str \in TextsUpTo(PlainChars, MaxTotal) :
       \E second_str \in TextsUpTo(PlainChars, MaxTotal - Len(first_str)) :
         \E third_str \in TextsUpTo(PlainChars,
                                    MaxTotal - Len(first_str) - Len(second_str)) :
           \E fourth_str \in TextsUpTo(PlainChars,
                                       MaxTotal - Len(first_str) - Len(second_str)
                                         - Len(third_str)) :
             by_four_lines(first_str, second_str, third_str, fourth_str)

\* combine_col under every configuration
NextCol ==
  \/ Configure
  \/ CallCombineCol
  \/ NextCombineCol
  \/ Drop

SpecCol == Init /\ [][NextCol]_vars

\* combine_col_esc under every configuration
NextEsc ==
  \/ Configure
  \/ CallCombineColEsc
  \/ NextCombineColEsc
  \/ Drop

SpecEsc == Init /\ [][NextEsc]_vars

\* cat_to_col
NextCat ==
  \/ CallCatToCol
  \/ NextCatToCol
  \/ Drop

SpecCat == Init /\ [][NextCat]_vars

\* by_pairs
NextPairs ==
  \/ CallByPairs
  \/ NextByPairs
  \/ Drop

SpecPairs == Init /\ [][NextPairs]_vars

\* the joins along the lines of the first text
NextFirst ==
  \/ CallByLines
  \/ CallByThreeLines
  \/ CallByFourLines
  \/ NextByLines
  \/ NextByThreeLines
  \/ NextByFourLines
  \/ Drop

SpecFirst == Init /\ [][NextFirst]_vars

\* the operations that do not strip escape sequences, under CatToCol::new()
NextPlain ==
  \/ CallCombineCol
  \/ CallCatToCol
  \/ CallByLines
  \/ CallByPairs
  \/ CallByThreeLines
  \/ CallByFourLines
  \/ NextCombineCol
  \/ NextCatToCol
  \/ NextByLines
  \/ NextByPairs
  \/ NextByThreeLines
  \/ NextByFourLines
  \/ Drop

SpecPlain == Init /\ [][NextPlain]_vars

\* a combine call whose texts other than the first are empty
CallAlone ==
  /\ status = "idle"
  /\ \E x \in TextsUpTo(PlainChars, MaxTotal) :
       \/ combine_col(x, NoText)
       \/ cat_to_col(x, NoText)
       \/ by_lines(x, NoText)
       \/ by_three_lines(x, NoText, NoText)
       \/ by_four_lines(x, NoText, NoText, NoText)

\* one text combined with empty texts, under every configuration
NextAlone ==
  \/ Configure
  \/ CallAlone
  \/ NextCombineCol
  \/ NextCatToCol
  \/ NextByLines
  \/ NextByThreeLines
  \/ NextByFourLines
  \/ Drop

SpecAlone == Init /\ [][NextAlone]_vars

\* the length of the texts the iterator i was made for
TextLen(i) == Len(i.str[1]) + Len(i.str[2]) + Len(i.str[3]) + Len(i.str[4])

\* a call of combine_col or by_lines, with or without the second iterator
\* alive
CallOne ==
  /\ status = "idle"
  /\ \E a \in TextsUpTo(PlainChars, MaxPair - TextLen(other.it)) :
       \E b \in TextsUpTo(PlainChars, MaxPair - TextLen(other.it) - Len(a)) :
         \/ combine_col(a, b)
         \/ by_lines(a, b)

\* CatToCol::fill alone
ConfigureFill == \E c \in FillChars : fill(c)

\* two iterators of one CatToCol, advanced in any order
NextTwo ==
  \/ ConfigureFill
  \/ CallOne
  \/ NextCombineCol
  \/ NextByLines
  \/ Drop
  \/ TurnToOther

SpecTwo == Init /\ [][NextTwo]_vars

\* the texts of the calls made under every configuration are one
\* character shorter than those of the calls under one
MaxMethods == MaxTotal - 1

CallMethodCol ==
  /\ status = "idle"
  /\ \E str_one \in TextsUpTo(PlainChars, MaxMethods) :
       \E str_two \in TextsUpTo(PlainChars, MaxMethods - Len(str_one)) :
         combine_col(str_one, str_two)

CallMethodEsc ==
  /\ status = "idle"
  /\ \E str_one \in TextsUpTo(EscChars, MaxMethods) :
       \E str_two \in TextsUpTo(PlainChars, MaxMethods - Len(str_one)) :
         combine_col_esc(str_one, str_two)

\* the methods of CatToCol
NextMethods ==
  \/ Configure
  \/ CallMethodCol
  \/ CallMethodEsc
  \/ NextCombineCol
  \/ NextCombineColEsc
  \/ Drop

SpecMethods == Init /\ [][NextMethods]_vars

\* every operation, under CatToCol::new()
NextEvery ==
  \/ CallCombineCol
  \/ CallCombineColEsc
  \/ CallCatToCol
  \/ CallByLines
  \/ CallByPairs
  \/ CallByThreeLines
  \/ CallByFourLines
  \/ NextCombineCol
  \/ NextCombineColEsc
  \/ NextCatToCol
  \/ NextByLines
  \/ NextByPairs
  \/ NextByThreeLines
  \/ NextByFourLines
  \/ Drop

SpecEvery == Init /\ [][NextEvery]_vars

\* every operation
Next == NextCol \/ NextEsc \/ NextCat \/ NextPairs \/ NextFirst

Spec == Init /\ [][Next]_vars

(***************************************************************************)
(* Vocabulary of the properties.                                           *)
(***************************************************************************)
\* the lines of the k-th input text of the call
InLines(k) == Lines(it.str[k])

\* the number of lines of the k-th input text
LineCount(k) == Len(InLines(k))

\* the output lines: the yielded text cut after every line feed
OutPieces == SplitInclusive(Concat(out), <<>>)

\* the widest line of text k, in code points, 0 for a text without lines
Widest(k) ==
  LET ws == {Len(InLines(k)[i]) : i \in 1..LineCount(k)} \cup {0}
  IN  CHOOSE w \in ws : \A v \in ws : v <= w

\* the iterator of the operation op has reported its end
Exhausted(op) == status = "exhausted" /\ it.op = op

PairedCount == Min(LineCount(1), LineCount(2))

\* the number of line-feed fragments yielded
LineFeeds == Cardinality({j \in 1..Len(out) : out[j] = <<LF>>})

(***************************************************************************)
(* C1: every paired output line of combine_col is the line of the first    *)
(* text, then (W - width of that line) + repeat fill characters, then the  *)
(* line of the second text, then a line feed, W being the width of the     *)
(* widest of all lines of the first text.                                  *)
(***************************************************************************)
C1_PairedLayout ==
  Exhausted("combine_col") =>
    /\ Len(OutPieces) >= PairedCount
    /\ \A i \in 1..PairedCount :
         OutPieces[i] =
           InLines(1)[i]
             \o Repeated(cfg.fill, (Widest(1) - Len(InLines(1)[i])) + cfg.repeat)
             \o InLines(2)[i] \o <<LF>>

\* a finished combine_col whose widest first line has no partner, with a
\* repeat count and a fill character that are not the defaults
C1_Witness ==
  /\ Exhausted("combine_col")
  /\ PairedCount >= 1
  /\ LineCount(1) > PairedCount
  /\ \A i \in 1..PairedCount : Len(InLines(1)[i]) < Widest(1)
  /\ \E i \in 1..PairedCount : InLines(2)[i] # <<>>
  /\ cfg.repeat = 1
  /\ cfg.fill = "*"

(***************************************************************************)
(* C2: in the output of combine_col every line of the second text, paired  *)
(* or left over, starts W + repeat code points after the start of its      *)
(* output line.                                                            *)
(***************************************************************************)
C2_Alignment ==
  Exhausted("combine_col") =>
    /\ Len(OutPieces) >= LineCount(2)
    /\ \A i \in 1..LineCount(2) :
         LET col == Widest(1) + cfg.repeat
             piece == OutPieces[i]
         IN  /\ Len(piece) = col + Len(InLines(2)[i]) + 1
             /\ SubSeq(piece, col + 1, Len(piece)) = InLines(2)[i] \o <<LF>>

\* a finished combine_col with a paired and a left-over line of the second
\* text, both non-empty, behind a first text of positive width
C2_Witness ==
  /\ Exhausted("combine_col")
  /\ PairedCount >= 1
  /\ LineCount(2) > PairedCount
  /\ Widest(1) >= 1
  /\ InLines(2)[1] # <<>>
  /\ InLines(2)[LineCount(2)] # <<>>

(***************************************************************************)
(* C3: after the paired lines combine_col emits every line left in the     *)
(* first text followed by a line feed, with no fill character, and every   *)
(* line left in the second text behind W + repeat fill characters; with an *)
(* empty first text every output line is repeat fill characters and the    *)
(* line of the second text.                                                *)
(***************************************************************************)
C3_Leftover ==
  Exhausted("combine_col") =>
    /\ Len(OutPieces) >= Max(LineCount(1), LineCount(2))
    /\ \A i \in (PairedCount + 1)..LineCount(1) :
         OutPieces[i] = InLines(1)[i] \o <<LF>>
    /\ \A i \in (PairedCount + 1)..LineCount(2) :
         OutPieces[i] =
           Repeated(cfg.fill, Widest(1) + cfg.repeat) \o InLines(2)[i] \o <<LF>>
    /\ it.str[1] = <<>> =>
         \A i \in 1..LineCount(2) :
           OutPieces[i] = Repeated(cfg.fill, cfg.repeat) \o InLines(2)[i] \o <<LF>>

\* a finished combine_col with a non-empty line left in the first text,
\* under a repeat count of 1
C3_Witness ==
  /\ Exhausted("combine_col")
  /\ LineCount(1) > LineCount(2)
  /\ LineCount(2) >= 1
  /\ InLines(1)[LineCount(1)] # <<>>
  /\ cfg.repeat = 1

(***************************************************************************)
(* C4: the output of combine_col, combine_col_esc and cat_to_col has       *)
(* exactly max(n1, n2) line-feed fragments: the iterator comes to its end, *)
(* and then it has yielded one line feed for every line of the longer      *)
(* text.                                                                   *)
(***************************************************************************)
C4_LineCount ==
  (it.op \in ChainOps /\ status \in {"exhausted", "panicked"}) =>
    /\ status = "exhausted"
    /\ LineFeeds = Max(LineCount(1), LineCount(2))

\* C4 without combine_col_esc: combine_col and cat_to_col alone
LineCountPlain == it.op # "combine_col_esc" => C4_LineCount

(***************************************************************************)
(* C5: by_lines, by_three_lines and by_four_lines yield exactly n1         *)
(* line-feed-terminated lines, whatever the line counts of the other       *)
(* texts; no line of another text at an index >= n1 is taken, and nothing  *)
(* fails.                                                                  *)
(***************************************************************************)
FirstDriven == {"by_lines", "by_three_lines", "by_four_lines"}

C5_FirstDrivenLength ==
  it.op \in FirstDriven =>
    /\ status # "panicked"
    /\ \A k \in 2..4 : it.pos[k] <= it.pos[1] /\ it.pos[k] <= LineCount(1)
    /\ LineFeeds <= LineCount(1)
    /\ status = "exhausted" =>
         /\ LineFeeds = LineCount(1)
         /\ Len(OutPieces) = LineCount(1)
         /\ \A i \in 1..Len(OutPieces) : HasSuffix(OutPieces[i], LF)

\* a finished by_four_lines with a text of more lines than the first and a
\* text of fewer
C5_Witness ==
  /\ Exhausted("by_four_lines")
  /\ LineCount(1) >= 1
  /\ LineCount(4) > LineCount(1)
  /\ LineCount(2) < LineCount(1)

(***************************************************************************)
(* C6: output line i of by_lines is line1[i], then one space exactly when  *)
(* line2[i] exists and both lines are non-empty, then line2[i] if it       *)
(* exists, then a line feed.                                               *)
(***************************************************************************)
C6_ByLinesSeparator ==
  Exhausted("by_lines") =>
    /\ Len(OutPieces) = LineCount(1)
    /\ \A i \in 1..LineCount(1) :
         LET exists == i <= LineCount(2)
             line2 == IF exists THEN InLines(2)[i] ELSE <<>>
             sep == IF exists /\ InLines(1)[i] # <<>> /\ line2 # <<>>
                    THEN <<SPACE>> ELSE <<>>
         IN  OutPieces[i] = InLines(1)[i] \o sep \o line2 \o <<LF>>

\* a finished by_lines with a pair of non-empty lines and a pair whose
\* first line alone is empty
C6_Witness ==
  /\ Exhausted("by_lines")
  /\ \E i \in 1..PairedCount : InLines(1)[i] # <<>> /\ InLines(2)[i] # <<>>
  /\ \E i \in 1..PairedCount : InLines(1)[i] = <<>> /\ InLines(2)[i] # <<>>

(***************************************************************************)
(* C7: in the output of by_lines, by_three_lines and by_four_lines every   *)
(* separator space comes right after a non-empty fragment of the same      *)
(* output line and right before a non-empty line fragment; so no two       *)
(* separators are adjacent, none starts an output line and none stands     *)
(* before the line feed.  The input texts of the model hold no space, so   *)
(* the spaces of the output are the separators.                            *)
(***************************************************************************)
Content(frag) == frag # <<>> /\ frag # <<SPACE>> /\ frag # <<LF>>

C7_NoDoubleSpace ==
  it.op \in FirstDriven =>
    /\ \A j \in 1..Len(out) :
         out[j] = <<SPACE>> =>
           /\ j > 1
           /\ Content(out[j - 1])
           /\ j < Len(out) => Content(out[j + 1])
           /\ status = "exhausted" => j < Len(out)
    /\ LET text == Concat(out)
       IN  \A j \in 1..Len(text) :
             text[j] = SPACE =>
               /\ j > 1
               /\ text[j - 1] \notin {SPACE, LF}
               /\ j < Len(text) => text[j + 1] \notin {SPACE, LF}

\* a finished by_three_lines whose first and third lines are joined over
\* an empty second line
C7_Witness ==
  /\ Exhausted("by_three_lines")
  /\ \E i \in 1..LineCount(1) :
       /\ i <= LineCount(2)
       /\ i <= LineCount(3)
       /\ InLines(1)[i] # <<>>
       /\ InLines(2)[i] = <<>>
       /\ InLines(3)[i] # <<>>
  /\ \E j \in 1..Len(out) : out[j] = <<SPACE>>

(***************************************************************************)
(* C8: the output of by_pairs is, in increasing index order, one line      *)
(* line1[i], space, line2[i], line feed for every index i < min(n1, n2)    *)
(* at which both lines are non-empty, and nothing else.                    *)
(***************************************************************************)
BothNonEmpty(i) == InLines(1)[i] # <<>> /\ InLines(2)[i] # <<>>

RECURSIVE PairsFrom(_)
PairsFrom(i) ==
  IF i > PairedCount THEN <<>>
  ELSE (IF BothNonEmpty(i)
        THEN InLines(1)[i] \o <<SPACE>> \o InLines(2)[i] \o <<LF>>
        ELSE <<>>) \o PairsFrom(i + 1)

C8_StrictPairs ==
  Exhausted("by_pairs") =>
    /\ Concat(out) = PairsFrom(1)
    /\ Len(OutPieces) = Cardinality({i \in 1..PairedCount : BothNonEmpty(i)})

\* a finished by_pairs that dropped an index with an empty line and kept a
\* later one
C8_Witness ==
  /\ Exhausted("by_pairs")
  /\ out # <<>>
  /\ \E i, j \in 1..PairedCount : i < j /\ ~BothNonEmpty(i) /\ BothNonEmpty(j)

(***************************************************************************)
(* C9: in by_three_lines and by_four_lines one space stands before the     *)
(* line of block k >= 2 at index i exactly when the lines of the blocks    *)
(* before it at that index, joined, are non-empty and block k has a        *)
(* non-empty line there; an exhausted block adds nothing; the output line  *)
(* ends with one line feed.                                                *)
(***************************************************************************)
LineAt(k, i) == IF i <= LineCount(k) THEN InLines(k)[i] ELSE <<>>

RECURSIVE RawPrefix(_, _)
\* the lines at index i of the blocks 1..k, joined without separators
RawPrefix(i, k) == IF k = 0 THEN <<>> ELSE RawPrefix(i, k - 1) \o LineAt(k, i)

RECURSIVE Assembled(_, _)
\* output line i after the blocks 1..k
Assembled(i, k) ==
  IF k = 1 THEN LineAt(1, i)
  ELSE Assembled(i, k - 1)
         \o (IF RawPrefix(i, k - 1) # <<>> /\ LineAt(k, i) # <<>>
             THEN <<SPACE>> ELSE <<>>)
         \o LineAt(k, i)

Blocks == IF it.op = "by_three_lines" THEN 3 ELSE 4

C9_NWaySeparator ==
  (status = "exhausted" /\ it.op \in {"by_three_lines", "by_four_lines"}) =>
    /\ Len(OutPieces) = LineCount(1)
    /\ \A i \in 1..LineCount(1) :
         OutPieces[i] = Assembled(i, Blocks) \o <<LF>>

\* a finished by_four_lines with a line of the fourth text behind a line
\* of the third, the first two texts giving nothing at that index
C9_Witness ==
  /\ Exhausted("by_four_lines")
  /\ \E i \in 1..LineCount(1) :
       /\ RawPrefix(i, 2) = <<>>
       /\ LineAt(3, i) # <<>>
       /\ LineAt(4, i) # <<>>

(***************************************************************************)
(* C10: every paired output line of cat_to_col is line1[i], one space,     *)
(* line2[i], line feed, empty lines included; every line left in the       *)
(* longer text is emitted followed by a line feed, without a space.        *)
(***************************************************************************)
C10_SimpleJoin ==
  Exhausted("cat_to_col") =>
    /\ Len(OutPieces) = Max(LineCount(1), LineCount(2))
    /\ \A i \in 1..PairedCount :
         OutPieces[i] = InLines(1)[i] \o <<SPACE>> \o InLines(2)[i] \o <<LF>>
    /\ \A i \in (PairedCount + 1)..LineCount(1) :
         OutPieces[i] = InLines(1)[i] \o <<LF>>
    /\ \A i \in (PairedCount + 1)..LineCount(2) :
         OutPieces[i] = InLines(2)[i] \o <<LF>>

\* a finished cat_to_col with an empty first line in a pair, an empty
\* second line in a pair and a line left over
C10_Witness ==
  /\ Exhausted("cat_to_col")
  /\ LineCount(1) # LineCount(2)
  /\ \E i \in 1..PairedCount : InLines(1)[i] = <<>>
  /\ \E i \in 1..PairedCount : InLines(2)[i] = <<>>

(***************************************************************************)
(* Vocabulary of the properties that compare runs.                         *)
(***************************************************************************)
RECURSIVE FillCounts(_, _, _)
\* the number of fill fragments of every output line of frags, the line
\* that is not finished yet included; n counts those of the current line
FillCounts(frags, fillc, n) ==
  IF frags = <<>> THEN <<n>>
  ELSE IF Head(frags) = <<LF>> THEN <<n>> \o FillCounts(Tail(frags), fillc, 0)
  ELSE FillCounts(Tail(frags), fillc,
                  n + (IF Head(frags) = <<fillc>> THEN 1 ELSE 0))

(***************************************************************************)
(* C11: combine_col_esc emits in every output line as many fill characters *)
(* as combine_col emits for the first text with its escape sequences       *)
(* stripped, and it emits the lines of the first text as they are, escape  *)
(* sequences included.  As a statement about every state of a run: the     *)
(* run does not fail, the finished output lines have the fill counts of    *)
(* the stripped run, the line being emitted has no more, and the i-th      *)
(* output line starts with the i-th line of the first text.                *)
(***************************************************************************)
StrippedFills ==
  FillCounts(Fragments(cfg, CombineColIter(strip(it.str[1]), it.str[2])),
             cfg.fill, 0)

\* the fill count of output line j of the stripped run; a line the stripped
\* run does not have counts as a line without fill characters
StrippedFillsAt(j) == IF j <= Len(StrippedFills) THEN StrippedFills[j] ELSE 0

C11_EscapeTransparency ==
  it.op = "combine_col_esc" =>
    LET mine == FillCounts(out, cfg.fill, 0)
        n == Len(mine)
    IN  /\ status # "panicked"
        /\ \A j \in 1..(n - 1) : mine[j] = StrippedFillsAt(j)
        /\ mine[n] <= StrippedFillsAt(n)
        /\ \A j \in 1..Min(Len(OutPieces), LineCount(1)) :
             HasSuffix(OutPieces[j], LF) =>
               SubSeq(OutPieces[j], 1, Len(InLines(1)[j])) = InLines(1)[j]

\* C11 as long as no subtraction has overflowed
EscapeTransparencyNoOverflow == profile = "unknown" => C11_EscapeTransparency

(***************************************************************************)
(* C13: combine_col, cat_to_col, by_lines, by_pairs, by_three_lines and    *)
(* by_four_lines never fail, whatever the input texts: no call and no      *)
(* Iterator::next panics or overflows, and an iterator that has come to    *)
(* its end has yielded the complete output of its mode, every output line  *)
(* closed by a line feed: max(n1, n2) lines for combine_col and            *)
(* cat_to_col, n1 lines for the joins along the first text, one line for   *)
(* every pair of non-empty lines for by_pairs.                             *)
(***************************************************************************)
PlainOps == (ChainOps \cup FirstOps) \ {"combine_col_esc"}

\* the number of output lines of the mode of the iterator
ModeLines ==
  IF it.op \in ChainOps THEN Max(LineCount(1), LineCount(2))
  ELSE IF it.op = "by_pairs"
  THEN Cardinality({i \in 1..PairedCount : BothNonEmpty(i)})
  ELSE LineCount(1)

C13_Totality ==
  it.op \in PlainOps =>
    /\ status # "panicked"
    /\ profile = "unknown"
    /\ it.front.take >= 0
    /\ LineFeeds <= ModeLines
    /\ status = "exhausted" =>
         /\ LineFeeds = ModeLines
         /\ Len(OutPieces) = ModeLines
         /\ \A i \in 1..Len(OutPieces) : HasSuffix(OutPieces[i], LF)
         /\ out = Fragments(cfg, CallIter(it.op, it.str))

\* a finished combine_col whose first text is lines without characters and
\* whose second text has fewer lines, one of them not empty
C13_Witness ==
  /\ Exhausted("combine_col")
  /\ LineCount(1) >= 2
  /\ \A i \in 1..LineCount(1) : InLines(1)[i] = <<>>
  /\ LineCount(2) >= 1
  /\ LineCount(2) < LineCount(1)
  /\ \E i \in 1..LineCount(2) : InLines(2)[i] # <<>>

(***************************************************************************)
(* C14: when every text but the first is empty, cat_to_col, combine_col    *)
(* (under every fill character and repeat count), by_lines, by_three_lines *)
(* and by_four_lines yield the lines of the first text in order, each      *)
(* followed by one line feed, and neither a fill character nor a space.    *)
(***************************************************************************)
IdentityOps ==
  {"cat_to_col", "combine_col", "by_lines", "by_three_lines", "by_four_lines"}

OthersEmpty == \A k \in 2..4 : it.str[k] = <<>>

C14_EmptyOthersIdentity ==
  (it.op \in IdentityOps /\ OthersEmpty) =>
    /\ \A j \in 1..Len(out) :
         out[j] = IF j % 2 = 1 THEN InLines(1)[(j + 1) \div 2] ELSE <<LF>>
    /\ status = "exhausted" =>
         /\ Len(out) = 2 * LineCount(1)
         /\ Len(OutPieces) = LineCount(1)
         /\ \A i \in 1..LineCount(1) : OutPieces[i] = InLines(1)[i] \o <<LF>>

\* a finished combine_col of a text with an empty and a non-empty line and
\* the empty text, under a fill character and a repeat count that are not
\* the defaults
C14_Witness ==
  /\ Exhausted("combine_col")
  /\ OthersEmpty
  /\ cfg = [fill |-> "*", repeat |-> 1]
  /\ \E i, j \in 1..LineCount(1) : InLines(1)[i] = <<>> /\ InLines(1)[j] # <<>>

(***************************************************************************)
(* C15: a text and the same text with one line feed behind it give the     *)
(* same output, in every operation and at every position.  The run of the  *)
(* state is compared with the run of the same call in which text k has a   *)
(* line feed appended: what has been yielded is what that run yields       *)
(* first, and the two end at the same fragment and in the same way.  The   *)
(* empty text has no line and the text "\n" has one empty line.            *)
(***************************************************************************)
\* the run of the state as the same call with the texts str yields it
SameOutputAs(str) ==
  LET r == Run(cfg, CallIter(it.op, str), profile # "wrapping", Len(out) + 1)
  IN  /\ Len(r.frags) >= Len(out)
      /\ SubSeq(r.frags, 1, Len(out)) = out
      /\ status = "exhausted" => r.end = "none"
      /\ status = "panicked" => r.end = "panic"

WithLineFeed(k) == [it.str EXCEPT ![k] = it.str[k] \o <<LF>>]

Last(t) == t[Len(t)]

LineFacts == Lines(<<>>) = <<>> /\ Lines(<<LF>>) = << <<>> >>

\* C15 as stated: for every text that is not empty and does not end with a
\* line feed
C15_TrailingLineFeed ==
  it.op # "none" =>
    /\ LineFacts
    /\ \A k \in 1..4 :
         (it.str[k] # <<>> /\ Last(it.str[k]) # LF) =>
           SameOutputAs(WithLineFeed(k))

\* C15 amended: for every text that is not empty and ends neither with a
\* line feed nor with a carriage return
C15_TrailingLineFeedNoCR ==
  it.op # "none" =>
    /\ LineFacts
    /\ \A k \in 1..4 :
         (it.str[k] # <<>> /\ Last(it.str[k]) \notin {LF, CR}) =>
           SameOutputAs(WithLineFeed(k))

\* a finished by_three_lines whose third text ends with a character of a
\* line that has been joined to a line of the first text
C15_Witness ==
  /\ Exhausted("by_three_lines")
  /\ it.str[3] # <<>>
  /\ Last(it.str[3]) \notin {LF, CR}
  /\ LineCount(3) >= 2
  /\ LineCount(1) >= LineCount(3)

(***************************************************************************)
(* C16: CatToCol::new() and default() have the fill character space and    *)
(* the repeat count 0; a step that changes the fill character leaves the   *)
(* repeat count as it is, and a step that changes the repeat count leaves  *)
(* the fill character; a step that returns, advances or drops an iterator  *)
(* of combine_col or combine_col_esc leaves the configuration unchanged,   *)
(* and what the iterator has yielded is what a call with the configuration *)
(* and the texts of the state yields.                                      *)
(***************************************************************************)
ConfigFrame ==
  /\ cfg'.fill # cfg.fill => cfg'.repeat = cfg.repeat
  /\ cfg'.repeat # cfg.repeat => cfg'.fill = cfg.fill
  /\ cfg' # cfg => UNCHANGED <<status, it, out>> /\ status = "idle"
  /\ (status # "idle" \/ status' # "idle") => cfg' = cfg

C16_ConfigFrame ==
  /\ cfg = [fill |-> SPACE, repeat |-> 0]
  /\ default = cfg
  /\ [][ConfigFrame]_vars
  /\ [](it.op \in {"combine_col", "combine_col_esc"} => SameOutputAs(it.str))

\* a finished combine_col_esc that has yielded fill characters under a fill
\* character and a repeat count set one after the other
C16_Witness ==
  /\ Exhausted("combine_col_esc")
  /\ cfg = [fill |-> "*", repeat |-> 1]
  /\ \E j \in 1..Len(out) : out[j] = <<"*">>

(***************************************************************************)
(* C17: the iterator of every combine operation yields finitely many       *)
(* fragments and then reports its end; after that every Iterator::next     *)
(* yields nothing; the fragments joined in order are the combined text of  *)
(* the mode.  As a statement about every run: no Iterator::next fails, the *)
(* number of fragments yielded stays within the number the output lines of *)
(* the mode can have, the text of a finished run is the text of the mode,  *)
(* and a step from a finished run changes neither the output nor the       *)
(* state of the iterator unless it drops the iterator.                     *)
(***************************************************************************)
\* the width the operation measures: of a line, and of the first text
OpWidth(text) ==
  IF it.op = "combine_col_esc" THEN max_line_len_no_esc(text)
  ELSE max_line_len(text)

\* output line i of combine_col, combine_col_esc and cat_to_col
ChainLine(i) ==
  LET w == OpWidth(it.str[1])
  IN  IF i <= PairedCount
      THEN InLines(1)[i]
             \o (IF it.op = "cat_to_col" THEN <<SPACE>>
                 ELSE Repeated(cfg.fill,
                               (w - OpWidth(InLines(1)[i])) + cfg.repeat))
             \o InLines(2)[i] \o <<LF>>
      ELSE IF i <= LineCount(1) THEN InLines(1)[i] \o <<LF>>
      ELSE (IF it.op = "cat_to_col" THEN <<>>
            ELSE Repeated(cfg.fill, w + cfg.repeat))
             \o InLines(2)[i] \o <<LF>>

RECURSIVE ModeTextFrom(_)
\* the output lines i, i + 1, ... of the joins that emit a line for every
\* index
ModeTextFrom(i) ==
  IF i > ModeLines THEN <<>>
  ELSE (IF it.op \in ChainOps THEN ChainLine(i)
        ELSE Assembled(i, IF it.op = "by_lines" THEN 2 ELSE Blocks) \o <<LF>>)
         \o ModeTextFrom(i + 1)

\* the combined text of the mode
ModeText == IF it.op = "by_pairs" THEN PairsFrom(1) ELSE ModeTextFrom(1)

\* the most fragments the output lines of the mode can be made of
FragmentBound ==
  Max(LineCount(1), LineCount(2)) * (OpWidth(it.str[1]) + cfg.repeat + 8)

FiniteRun ==
  it.op # "none" =>
    /\ status # "panicked"
    /\ Len(out) <= FragmentBound
    /\ status = "exhausted" => Concat(out) = ModeText

ExhaustedStays ==
  (status = "exhausted" /\ status' # "idle") =>
    UNCHANGED <<status, it, out>>

C17_FiniteForwardOnly == [](FiniteRun) /\ [][ExhaustedStays]_vars

\* C17 without combine_col_esc
FiniteForwardOnlyPlain ==
  [](it.op # "combine_col_esc" => FiniteRun) /\ [][ExhaustedStays]_vars

(***************************************************************************)
(* C18: two iterators of combine calls on one CatToCol, advanced one       *)
(* fragment at a time in any order, each yield what they yield when they   *)
(* are drained alone; a step of one iterator (a call, an Iterator::next, a *)
(* drop) leaves the state and the output of the other as they are, no step *)
(* changes the texts of a live iterator, and the configuration does not   *)
(* change while an iterator is alive.                                      *)
(***************************************************************************)
\* what the iterator i has yielded, o, is what the call yields alone
YieldsAlone(s, i, o) ==
  i.op # "none" =>
    LET r == Run(cfg, CallIter(i.op, i.str), profile # "wrapping", Len(o) + 1)
    IN  /\ Len(r.frags) >= Len(o)
        /\ SubSeq(r.frags, 1, Len(o)) = o
        /\ s = "exhausted" => r.end = "none"
        /\ s = "panicked" => r.end = "panic"

Independent ==
  /\ \/ /\ other' = other
        /\ (status # "idle" /\ status' # "idle") => it'.str = it.str
     \/ /\ other' = [status |-> status, it |-> it, out |-> out]
        /\ <<status', it', out'>> = <<other.status, other.it, other.out>>
  /\ (status # "idle" \/ other.status # "idle") => cfg' = cfg

C18_Independence ==
  /\ [](YieldsAlone(status, it, out)
          /\ YieldsAlone(other.status, other.it, other.out))
  /\ [][Independent]_vars

\* a finished combine_col under a fill character set before the call, and
\* a by_lines that has taken a line of its second text and is not finished
C18_Witness ==
  /\ Exhausted("combine_col")
  /\ other.status = "iterating"
  /\ other.it.op = "by_lines"
  /\ other.out # <<>>
  /\ other.it.pos[2] >= 1
  /\ out # <<>>
  /\ cfg.fill = "*"

(***************************************************************************)
(* C19: in combine_col_esc the width of every paired line of the first     *)
(* text, measured by stripping the line alone, is at most max_line_one,    *)
(* measured by stripping the whole first text, so the subtraction          *)
(* max_line_one - width never underflows: no Iterator::next panics and no  *)
(* count of fill characters wraps.                                         *)
(***************************************************************************)
C19_NonNegativePadding ==
  it.op = "combine_col_esc" =>
    /\ it.max_line_one = max_line_len_no_esc(it.str[1])
    /\ \A i \in 1..PairedCount :
         max_line_len_no_esc(InLines(1)[i]) <= it.max_line_one
    /\ it.front.take >= 0
    /\ status # "panicked"

(***************************************************************************)
(* C20: the text of by_three_lines(a, b, c) is the text of by_lines(X, c)  *)
(* for X the text of by_lines(a, b), and the text of                       *)
(* by_four_lines(a, b, c, d) is the text of by_lines(Y, d) for Y the text  *)
(* of by_three_lines(a, b, c).                                             *)
(***************************************************************************)
\* by_lines(a, b).collect::<String>()
ByLinesText(a, b) ==
  Concat(Fragments(cfg, FirstIter("by_lines", a, b, NoText, NoText)))

\* by_three_lines(a, b, c).collect::<String>()
ByThreeLinesText(a, b, c) ==
  Concat(Fragments(cfg, FirstIter("by_three_lines", a, b, c, NoText)))

LeftFold ==
  /\ Exhausted("by_three_lines") =>
       Concat(out) = ByLinesText(ByLinesText(it.str[1], it.str[2]), it.str[3])
  /\ Exhausted("by_four_lines") =>
       Concat(out) =
         ByLinesText(ByThreeLinesText(it.str[1], it.str[2], it.str[3]),
                     it.str[4])

\* C20 as stated: for all texts
C20_LeftFold == LeftFold

\* no line of text k ends with a carriage return
NoLineEndsWithCR(k) == \A i \in 1..LineCount(k) : ~HasSuffix(InLines(k)[i], CR)

\* C20 amended: for all texts such that no line of the texts joined first
\* (a and b, and c for by_four_lines) ends with a carriage return
C20_LeftFoldNoCR ==
  (\A k \in 1..(Blocks - 1) : NoLineEndsWithCR(k)) => LeftFold

\* a finished by_four_lines with an index at which the first line is empty,
\* the third is missing and the second and fourth are joined, no line of
\* the first three texts ending with a carriage return
C20_Witness ==
  /\ Exhausted("by_four_lines")
  /\ \A k \in 1..3 : NoLineEndsWithCR(k)
  /\ \E i \in 1..LineCount(1) :
       /\ LineAt(1, i) = <<>>
       /\ LineAt(2, i) # <<>>
       /\ LineAt(3, i) = <<>>
       /\ LineAt(4, i) # <<>>

(***************************************************************************)
(* C21: by_pairs walks the two texts in lockstep: when k lines of the      *)
(* first text have been taken, min(k, n2) lines of the second have been    *)
(* taken, an index dropped for an empty line included; what has been       *)
(* yielded is the joins line1[i], space, line2[i], line feed of the        *)
(* indices taken at which both lines are non-empty, the last one possibly  *)
(* in part; no step goes back in either text; and the output of a finished *)
(* by_pairs is the output lines of cat_to_col on the same texts at the     *)
(* indices i <= min(n1, n2) at which both lines are non-empty, in order.   *)
(***************************************************************************)
\* s is a leading part of t
IsLeading(s, t) == Len(s) <= Len(t) /\ SubSeq(t, 1, Len(s)) = s

RECURSIVE KeptUpTo(_)
\* the joins of the indices 1..k at which both texts have a non-empty line
KeptUpTo(k) ==
  IF k = 0 THEN <<>>
  ELSE KeptUpTo(k - 1)
         \o (IF k <= PairedCount /\ BothNonEmpty(k)
             THEN InLines(1)[k] \o <<SPACE>> \o InLines(2)[k] \o <<LF>>
             ELSE <<>>)

\* the output lines of cat_to_col on the texts of the iterator
CatToColPieces ==
  SplitInclusive(Concat(Fragments(cfg, CatToColIter(it.str[1], it.str[2]))),
                 <<>>)

RECURSIVE PiecesKept(_, _)
\* the members of pieces at the indices i..min(n1, n2) at which both texts
\* have a non-empty line
PiecesKept(pieces, i) ==
  IF i > PairedCount THEN <<>>
  ELSE (IF BothNonEmpty(i) THEN <<pieces[i]>> ELSE <<>>)
         \o PiecesKept(pieces, i + 1)

Lockstep ==
  it.op = "by_pairs" =>
    /\ it.pos[2] = Min(it.pos[1], LineCount(2))
    /\ IsLeading(Concat(out), KeptUpTo(it.pos[1]))
    /\ it.pos[1] >= 1 => IsLeading(KeptUpTo(it.pos[1] - 1), Concat(out))
    /\ status = "exhausted" =>
         /\ it.pos[1] = LineCount(1)
         /\ Len(CatToColPieces) >= PairedCount
         /\ OutPieces = PiecesKept(CatToColPieces, 1)

\* a step of a live by_pairs goes on in both texts by the same number of
\* lines, as far as the second text has lines
LockstepForward ==
  (it.op = "by_pairs" /\ it'.op = "by_pairs" /\ it'.str = it.str) =>
    /\ it'.pos[1] >= it.pos[1]
    /\ it'.pos[2] - it.pos[2]
         = Min(it'.pos[1], LineCount(2)) - Min(it.pos[1], LineCount(2))

C21_PositionalLockstep == [](Lockstep) /\ [][LockstepForward]_vars

\* a finished by_pairs that dropped an index for the empty line of the
\* first text, with a non-empty line of the second text there, and joined
\* the lines of a later index
C21_Witness ==
  /\ Exhausted("by_pairs")
  /\ \E i, j \in 1..PairedCount :
       /\ i < j
       /\ InLines(1)[i] = <<>>
       /\ InLines(2)[i] # <<>>
       /\ BothNonEmpty(j)
  /\ Len(OutPieces) < Len(CatToColPieces)

====
